---- MODULE Spec2Model ----
(***************************************************************************)
(* Model of nextjs_crawler.py: the directory walk that builds the tree of  *)
(* NextjsNode objects, prune_tree, generate_mermaid and main.              *)
(*                                                                         *)
(* A Python str is a sequence of one-character strings, so that the        *)
(* regular expressions and the os.path functions are computed character by *)
(* character.  A filesystem location is the sequence of the names on the   *)
(* way from "/" to the entry.                                              *)
(***************************************************************************)
EXTENDS Integers, Sequences, FiniteSets, TLC

\* ------------------------------------------------------------------ bounds

\* Most entries (directories and files) created under the project directory.
MaxEntries == 4

\* --------------------------------------------------------------- strings

Lower == {"a", "b", "c", "d", "e", "f", "g", "h", "i", "j", "k", "l", "m",
          "n", "o", "p", "q", "r", "s", "t", "u", "v", "w", "x", "y", "z"}

Upper == {"A", "B", "C", "D", "E", "F", "G", "H", "I", "J", "K", "L", "M",
          "N", "O", "P", "Q", "R", "S", "T", "U", "V", "W", "X", "Y", "Z"}

Digits == {"0", "1", "2", "3", "4", "5", "6", "7", "8", "9"}

\* The characters the regular expression class \w matches.
WordChars == Lower \cup Upper \cup Digits \cup {"_"}

StartsWith(s, p) == Len(s) >= Len(p) /\ SubSeq(s, 1, Len(p)) = p

\* str.replace(old, new) for a one-character old.
Replace(s, old, new) == [i \in 1..Len(s) |-> IF s[i] = old THEN new ELSE s[i]]

\* The last index of character c in s, 0 when there is none (str.rfind + 1).
RFind(s, c) ==
    LET hits == {i \in 1..Len(s) : s[i] = c}
    IN  IF hits = {} THEN 0 ELSE CHOOSE i \in hits : \A j \in hits : j <= i

\* str.rstrip('/')
RECURSIVE RStripSlash(_)
RStripSlash(s) ==
    IF s # <<>> /\ s[Len(s)] = "/" THEN RStripSlash(SubSeq(s, 1, Len(s) - 1)) ELSE s

\* str.split('/'): the pieces between the slashes, empty pieces included.
RECURSIVE SplitSlash(_)
SplitSlash(s) ==
    LET hits == {i \in 1..Len(s) : s[i] = "/"}
    IN  IF hits = {} THEN <<s>>
        ELSE LET i == CHOOSE k \in hits : \A j \in hits : k <= j
             IN  <<SubSeq(s, 1, i - 1)>> \o SplitSlash(SubSeq(s, i + 1, Len(s)))

\* '/'.join(parts)
RECURSIVE JoinSlash(_)
JoinSlash(parts) ==
    IF parts = <<>> THEN <<>>
    ELSE IF Len(parts) = 1 THEN parts[1]
    ELSE parts[1] \o <<"/">> \o JoinSlash(Tail(parts))

\* --------------------------------------------------------------- os.path

\* os.path.basename
basename(p) == SubSeq(p, RFind(p, "/") + 1, Len(p))

\* os.path.dirname
dirname(p) ==
    LET head == SubSeq(p, 1, RFind(p, "/"))
    IN  IF head # <<>> /\ (\E i \in 1..Len(head) : head[i] # "/")
        THEN RStripSlash(head) ELSE head

\* os.path.join of two paths
join(a, b) ==
    IF StartsWith(b, <<"/">>) THEN b
    ELSE IF a = <<>> \/ a[Len(a)] = "/" THEN a \o b
    ELSE a \o <<"/">> \o b

\* The names left of a split path once "", "." and ".." are resolved, as
\* os.path.normpath resolves them for an absolute path.
RECURSIVE NormParts(_, _)
NormParts(parts, acc) ==
    IF parts = <<>> THEN acc
    ELSE LET c == Head(parts)
         IN  IF c = <<>> \/ c = <<".">> THEN NormParts(Tail(parts), acc)
             ELSE IF c = <<".", ".">>
                  THEN NormParts(Tail(parts),
                                 IF acc = <<>> THEN acc ELSE SubSeq(acc, 1, Len(acc) - 1))
             ELSE NormParts(Tail(parts), Append(acc, c))

\* The names of os.path.abspath(p) in working directory wd:
\* normpath(join(wd, p)) split at the slashes.
AbsParts(wd, p) == NormParts(SplitSlash(join(wd, p)), <<>>)

\* The length of the longest common prefix of two sequences.
RECURSIVE CommonLen(_, _)
CommonLen(a, b) ==
    IF a = <<>> \/ b = <<>> \/ Head(a) # Head(b) THEN 0
    ELSE 1 + CommonLen(Tail(a), Tail(b))

\* os.path.relpath(path, start) in working directory wd
relpath(wd, path, start) ==
    LET start_list == AbsParts(wd, start)
        path_list  == AbsParts(wd, path)
        i          == CommonLen(start_list, path_list)
        rel_list   == [k \in 1..(Len(start_list) - i) |-> <<".", ".">>]
                      \o SubSeq(path_list, i + 1, Len(path_list))
    IN  IF rel_list = <<>> THEN <<".">> ELSE JoinSlash(rel_list)

\* ------------------------------------------------------------ classifier

\* The alternation (js|jsx|ts|tsx) of the two file patterns.
Extensions == {<<"j", "s">>, <<"j", "s", "x">>, <<"t", "s">>, <<"t", "s", "x">>}

\* r'page\.(js|jsx|ts|tsx)$': the literal text before the alternation.
PAGE_PATTERNS == <<<<"p", "a", "g", "e", ".">>>>

\* r'layout\.(js|jsx|ts|tsx)$'
LAYOUT_PATTERNS == <<<<"l", "a", "y", "o", "u", "t", ".">>>>

\* The anchor $ after a match ending at index k: the end of the string, or the
\* place just before a newline that ends the string.
AtDollar(s, k) == k = Len(s) \/ (k = Len(s) - 1 /\ s[Len(s)] = "\n")

\* re.search(prefix (js|jsx|ts|tsx)$, s): the pattern may start at any index.
SearchPattern(prefix, s) ==
    \E i \in 1..Len(s), e \in Extensions :
        LET pat == prefix \o e
            k   == i + Len(pat) - 1
        IN  k <= Len(s) /\ SubSeq(s, i, k) = pat /\ AtDollar(s, k)

is_page_file(filename) ==
    \E n \in DOMAIN PAGE_PATTERNS : SearchPattern(PAGE_PATTERNS[n], filename)

is_layout_file(filename) ==
    \E n \in DOMAIN LAYOUT_PATTERNS : SearchPattern(LAYOUT_PATTERNS[n], filename)

\* re.search(r'\[(.+?)\]', s): <<i, j>>, the indices of the brackets of the
\* leftmost match with the shortest group, or <<0, 0>> when nothing matches.
\* The group is one or more characters other than a newline.
DYNAMIC_ROUTE_PATTERN(s) ==
    LET Close(i) == {j \in (i + 2)..Len(s) : s[j] = "]"}
        First(i) == CHOOSE j \in Close(i) : \A k \in Close(i) : j <= k
        Ok(i)    == /\ s[i] = "["
                    /\ Close(i) # {}
                    /\ \A k \in (i + 1)..(First(i) - 1) : s[k] # "\n"
        starts   == {i \in 1..Len(s) : Ok(i)}
    IN  IF starts = {} THEN <<0, 0>>
        ELSE LET i == CHOOSE a \in starts : \A b \in starts : a <= b
             IN  <<i, First(i)>>

is_dynamic_route(dirname_) == DYNAMIC_ROUTE_PATTERN(dirname_) # <<0, 0>>

\* ------------------------------------------------------------ NextjsNode

\* NextjsNode.__init__
NextjsNode(name, path, node_type) ==
    [name          |-> name,
     path          |-> path,
     node_type     |-> node_type,
     children      |-> <<>>,
     has_component |-> node_type \in {"page", "layout"}]

\* NextjsNode.get_mermaid_id
get_mermaid_id(node) ==
    LET clean_path == Replace(Replace(Replace(node.path, "/", "_"), ".", "_"), "-", "_")
    IN  [i \in 1..Len(clean_path) |->
            IF clean_path[i] \in WordChars THEN clean_path[i] ELSE "_"]

\* NextjsNode.get_mermaid_label
get_mermaid_label(node) ==
    IF node.node_type = "dynamic"
    THEN LET m == DYNAMIC_ROUTE_PATTERN(node.name)
         IN  IF m # <<0, 0>>
             THEN <<"[">> \o SubSeq(node.name, m[1] + 1, m[2] - 1) \o <<"]">>
             ELSE node.name
    ELSE node.name

\* NextjsNode.get_mermaid_style: the text after "style <id> ", <<>> for the
\* empty string.
get_mermaid_style(node) ==
    IF node.node_type = "page" THEN <<"fill:#9f9,stroke:#6c6,stroke-width:1px">>
    ELSE IF node.node_type = "layout" THEN <<"fill:#ff9,stroke:#cc6,stroke-width:1px">>
    ELSE IF node.node_type = "dynamic" THEN <<"fill:#9cf,stroke:#69c,stroke-width:1px">>
    ELSE <<>>

\* NextjsNode.add_child on the heap h (a sequence of node records; an object
\* is its index): the child's index is appended to the parent's children.
add_child(h, parent, child) ==
    [h EXCEPT ![parent].children = Append(@, child)]

\* has_component_in_subtree without the recursion: the node and its children
\* only.
has_component_in_children(h, n) ==
    \/ h[n].has_component
    \/ \E k \in 1..Len(h[n].children) : h[h[n].children[k]].has_component

\* NextjsNode.has_component_in_subtree
RECURSIVE has_component_in_subtree(_, _)
has_component_in_subtree(h, n) ==
    \/ h[n].has_component
    \/ \E k \in 1..Len(h[n].children) : has_component_in_subtree(h, h[n].children[k])

\* ------------------------------------------------------------ prune_tree

\* prune_tree(node): the heap after the call.  The loop over node.children
\* is PruneLoop: k is the next child, kept is pruned_children so far.
RECURSIVE prune_tree(_, _), PruneLoop(_, _, _, _), PruneLoopPrepend(_, _, _, _)

\* The loop with pruned_children.insert(0, pruned_child) for append.
PruneLoopPrepend(h, n, k, kept) ==
    IF k > Len(h[n].children)
    THEN [h EXCEPT ![n].children = kept]
    ELSE LET child == h[n].children[k]
         IN  IF has_component_in_subtree(h, child)
             THEN PruneLoopPrepend(prune_tree(h, child), n, k + 1, <<child>> \o kept)
             ELSE PruneLoopPrepend(h, n, k + 1, kept)

PruneLoop(h, n, k, kept) ==
    IF k > Len(h[n].children)
    THEN [h EXCEPT ![n].children = kept]
    ELSE LET child == h[n].children[k]
         IN  IF has_component_in_subtree(h, child)
             THEN PruneLoop(prune_tree(h, child), n, k + 1, Append(kept, child))
             ELSE PruneLoop(h, n, k + 1, kept)

prune_tree(h, n) == PruneLoop(h, n, 1, <<>>)

\* ------------------------------------------------------ generate_mermaid

\* One line of the diagram text.  kind tells the line's shape:
\*   header  flowchart TD
\*   decl    <id>["<arg>"]
\*   edge    <id> --> <arg>
\*   style   style <id> <arg[1]>
\* src is the node being dequeued when the line was appended; it is not part
\* of the text.
Line(kind, id, arg, src) == [kind |-> kind, id |-> id, arg |-> arg, src |-> src]

\* The for loop over node.children: one edge line per child, in order.
ChildEdges(h, node) ==
    [k \in 1..Len(h[node].children) |->
        Line("edge", get_mermaid_id(h[node]), get_mermaid_id(h[h[node].children[k]]), node)]

\* One turn of the while loop for a node that is not skipped.
VisitNode(h, st, node, rest) ==
    LET node_id == get_mermaid_id(h[node])
        style   == get_mermaid_style(h[node])
    IN  [lines   |-> Append(st.lines, Line("decl", node_id, get_mermaid_label(h[node]), node)),
         edges   |-> st.edges \o ChildEdges(h, node),
         styles  |-> IF style # <<>>
                     THEN Append(st.styles, Line("style", node_id, style, node))
                     ELSE st.styles,
         queue   |-> rest \o h[node].children,
         visited |-> st.visited \cup {node_id}]

\* The while loop with queue.pop() for queue.popleft(): a stack.
RECURSIVE MermaidLoopPop(_, _)
MermaidLoopPop(h, st) ==
    IF st.queue = <<>> THEN st
    ELSE LET node == st.queue[Len(st.queue)]
             rest == SubSeq(st.queue, 1, Len(st.queue) - 1)
         IN  IF get_mermaid_id(h[node]) \in st.visited
             THEN MermaidLoopPop(h, [st EXCEPT !.queue = rest])
             ELSE MermaidLoopPop(h, VisitNode(h, st, node, rest))

\* The while loop without the test "if node_id in visited: continue".
RECURSIVE MermaidLoopUnguarded(_, _)
MermaidLoopUnguarded(h, st) ==
    IF st.queue = <<>> THEN st
    ELSE MermaidLoopUnguarded(h, VisitNode(h, st, Head(st.queue), Tail(st.queue)))

\* The while loop of generate_mermaid, from the state st = [lines, edges,
\* styles, queue, visited] to the state when the queue is empty.
RECURSIVE MermaidLoop(_, _)
MermaidLoop(h, st) ==
    IF st.queue = <<>> THEN st
    ELSE LET node == Head(st.queue)
         IN  IF get_mermaid_id(h[node]) \in st.visited
             THEN MermaidLoop(h, [st EXCEPT !.queue = Tail(@)])
             ELSE MermaidLoop(h, VisitNode(h, st, node, Tail(st.queue)))

\* generate_mermaid(root_node): the lines that are joined by "\n".
generate_mermaid(h, root_node) ==
    LET st == MermaidLoop(h, [lines   |-> <<Line("header", <<>>, <<"flowchart TD">>, 0)>>,
                              edges   |-> <<>>,
                              styles  |-> <<>>,
                              queue   |-> <<root_node>>,
                              visited |-> {}])
    IN  st.lines \o st.edges \o st.styles

\* ------------------------------------------------------------ the state

VARIABLES
    fs,            \* the entries under the project directory: [loc, kind]
    pc,            \* where main is: setup, walk, crawled, pruned, emitted, exit
    cwd,           \* the working directory of the process
    argv,          \* sys.argv[1:]
    nodes,         \* the heap of NextjsNode objects; an object is its index
    path_to_node,  \* crawl_nextjs_project's dict: relative path -> object
    pending,       \* the directories os.walk has still to yield, next first
    mermaid,       \* the lines generate_mermaid returned
    outfile,       \* the output file: absent, written, partial
    exit_code,     \* the exit status of the process, -1 while it runs
    built,         \* the heap as crawl_nextjs_project returned it
    steps          \* the stages of main completed so far, in order

vars == <<fs, pc, cwd, argv, nodes, path_to_node, pending, mermaid, outfile,
          exit_code, built, steps>>

\* ------------------------------------------------------- the filesystem

\* The project directory is /w/app.
ProjectLoc == <<<<"w">>, <<"a", "p", "p">>>>

\* The directory names and file names the entries are drawn from.
DirNames == {<<"a", "_", "b">>, <<"a", "-", "b">>, <<"[", "i", "d", "]">>}

FileNames == {<<"p", "a", "g", "e", ".", "t", "s", "x">>,
              <<"l", "a", "y", "o", "u", "t", ".", "j", "s">>,
              <<"m", "y", "p", "a", "g", "e", ".", "t", "s", "x">>,
              <<"p", "a", "g", "e", ".", "c", "s", "s">>}

\* The command lines main is run with: the project directory by its name
\* from its parent, the same with a trailing slash, as "." from inside it, a
\* path that does not exist, and no argument at all.
Invocations ==
    {[cwd |-> <<"/", "w">>, argv |-> <<<<"a", "p", "p">>>>],
     [cwd |-> <<"/", "w">>, argv |-> <<<<"a", "p", "p", "/">>>>],
     [cwd |-> <<"/", "w", "/", "a", "p", "p">>, argv |-> <<<<".">>>>],
     [cwd |-> <<"/", "w">>, argv |-> <<<<"n", "o", "p", "e">>>>],
     [cwd |-> <<"/", "w">>, argv |-> <<>>]}

DirLocs == {<<>>, <<<<"w">>>>, ProjectLoc} \cup {e.loc : e \in {x \in fs : x.kind = "dir"}}

FileLocs == {e.loc : e \in {x \in fs : x.kind = "file"}}

\* The names of the entries of the given kind directly in directory loc.
Listing(loc, kind) ==
    {e.loc[Len(e.loc)] : e \in {x \in fs : /\ x.kind = kind
                                           /\ Len(x.loc) = Len(loc) + 1
                                           /\ SubSeq(x.loc, 1, Len(loc)) = loc}}

\* The orders in which a directory's names can be enumerated.
Orders(S) ==
    {f \in [1..Cardinality(S) -> S] : \A i, j \in 1..Cardinality(S) : f[i] = f[j] => i = j}

\* os.path.exists answering True for every path.
exists_always(wd, p) == TRUE

\* os.path.exists
exists(wd, p) == p # <<>> /\ AbsParts(wd, p) \in DirLocs \cup FileLocs

isdir(wd, p) == p # <<>> /\ AbsParts(wd, p) \in DirLocs

\* A directory or a file appears under the project directory before the run.
CreateEntry(kind, names) ==
    /\ pc = "setup"
    /\ Cardinality(fs) < MaxEntries
    /\ \E parent \in DirLocs, name \in names :
          /\ Len(parent) >= Len(ProjectLoc)
          /\ Append(parent, name) \notin DirLocs \cup FileLocs
          /\ fs' = fs \cup {[loc |-> Append(parent, name), kind |-> kind]}
    /\ UNCHANGED <<pc, cwd, argv, nodes, path_to_node, pending, mermaid, outfile,
                   exit_code, built, steps>>

Mkdir == CreateEntry("dir", DirNames)

Touch == CreateEntry("file", FileNames)

\* ------------------------------------------------- crawl_nextjs_project

\* The root object is the first one created.
root == 1

root_path == argv[1]

root_name == basename(root_path)

\* dict assignment d[k] = v
Put(d, k, v) == [x \in DOMAIN d \cup {k} |-> IF x = k THEN v ELSE d[x]]

\* rel_path of the directory os.walk yields as dirpath.
RelPath(dirpath) ==
    LET rel_path == relpath(cwd, dirpath, dirname(root_path))
    IN  IF rel_path = <<".">> THEN root_name ELSE rel_path

\* The choice of current_node: the object registered under rel_path, or a
\* new one, attached to its parent only when the parent is registered.
\* st = [h, p2n]: the heap and the dict.
CurrentNode(st, rel_path) ==
    IF rel_path \in DOMAIN st.p2n
    THEN [h |-> st.h, p2n |-> st.p2n, cur |-> st.p2n[rel_path]]
    ELSE LET parent_path == dirname(rel_path)
             dir_name    == basename(rel_path)
             node_type   == IF is_dynamic_route(dir_name) THEN "dynamic" ELSE "folder"
             new         == Len(st.h) + 1
             h1          == Append(st.h, NextjsNode(dir_name, rel_path, node_type))
         IN  [h   |-> IF parent_path \in DOMAIN st.p2n
                      THEN add_child(h1, st.p2n[parent_path], new) ELSE h1,
              p2n |-> Put(st.p2n, rel_path, new),
              cur |-> new]

\* One new child of current_node, registered under child_path.
NewChild(st, rel_path, name, node_type) ==
    LET child_path == join(rel_path, name)
        new        == Len(st.h) + 1
    IN  [h   |-> add_child(Append(st.h, NextjsNode(name, child_path, node_type)), st.cur, new),
         p2n |-> Put(st.p2n, child_path, new),
         cur |-> st.cur]

\* The loop over dirnames.
RECURSIVE RegisterDirs(_, _, _)
RegisterDirs(st, rel_path, dirnames) ==
    IF dirnames = <<>> THEN st
    ELSE RegisterDirs(NewChild(st, rel_path, Head(dirnames),
                               IF is_dynamic_route(Head(dirnames)) THEN "dynamic" ELSE "folder"),
                      rel_path, Tail(dirnames))

\* The loop over filenames.
RECURSIVE RegisterFiles(_, _, _)
RegisterFiles(st, rel_path, filenames) ==
    IF filenames = <<>> THEN st
    ELSE LET filename == Head(filenames)
         IN  IF is_page_file(filename) \/ is_layout_file(filename)
             THEN RegisterFiles(NewChild(st, rel_path, filename,
                                         IF is_page_file(filename) THEN "page" ELSE "layout"),
                                rel_path, Tail(filenames))
             ELSE RegisterFiles(st, rel_path, Tail(filenames))

\* main up to the first directory of the walk: the usage check, the
\* existence check of crawl_nextjs_project (sys.exit raises SystemExit, which
\* "except Exception" does not catch), the root object and the dict.
MainStart ==
    /\ pc = "setup"
    /\ \E inv \in Invocations :
          /\ cwd' = inv.cwd
          /\ argv' = inv.argv
          /\ IF Len(inv.argv) < 1 \/ ~exists(inv.cwd, inv.argv[1])
             THEN /\ pc' = "exit"
                  /\ exit_code' = 1
                  /\ UNCHANGED <<nodes, path_to_node, pending, steps>>
             ELSE LET name == basename(inv.argv[1])
                  IN  /\ nodes' = <<NextjsNode(name, name, "folder")>>
                      /\ path_to_node' = Put(<<>>, name, root)
                      /\ IF isdir(inv.cwd, inv.argv[1])
                         THEN /\ pending' = <<inv.argv[1]>>
                              /\ pc' = "walk"
                              /\ steps' = steps
                         ELSE /\ pending' = <<>>
                              /\ pc' = "crawled"
                              /\ steps' = Append(steps, "crawl")
                      /\ UNCHANGED exit_code
    /\ UNCHANGED <<fs, mermaid, outfile, built>>

\* One iteration of the loop over os.walk(root_path), top-down: the
\* directory's names come in any order, and its subdirectories are walked
\* next, in the order they were listed.  After the last directory the
\* function returns the root.
WalkStep ==
    /\ pc = "walk"
    /\ LET dirpath  == Head(pending)
           loc      == AbsParts(cwd, dirpath)
           rel_path == RelPath(dirpath)
       IN  \E dirnames \in Orders(Listing(loc, "dir")),
              filenames \in Orders(Listing(loc, "file")) :
              LET st == RegisterFiles(
                            RegisterDirs(
                                CurrentNode([h |-> nodes, p2n |-> path_to_node], rel_path),
                                rel_path, dirnames),
                            rel_path, filenames)
                  rest == [k \in 1..Len(dirnames) |-> join(dirpath, dirnames[k])]
                          \o Tail(pending)
              IN  /\ nodes' = st.h
                  /\ path_to_node' = st.p2n
                  /\ pending' = rest
                  /\ pc' = IF rest = <<>> THEN "crawled" ELSE "walk"
                  /\ steps' = IF rest = <<>> THEN Append(steps, "crawl") ELSE steps
    /\ UNCHANGED <<fs, cwd, argv, mermaid, outfile, exit_code, built>>

\* ------------------------------------------------------------------ main

\* pruned_root = prune_tree(root_node)
Prune ==
    /\ pc = "crawled"
    /\ built' = nodes
    /\ nodes' = prune_tree(nodes, root)
    /\ pc' = "pruned"
    /\ steps' = Append(steps, "prune")
    /\ UNCHANGED <<fs, cwd, argv, path_to_node, pending, mermaid, outfile, exit_code>>

\* mermaid_diagram = generate_mermaid(pruned_root)
Emit ==
    /\ pc = "pruned"
    /\ mermaid' = generate_mermaid(nodes, root)
    /\ pc' = "emitted"
    /\ steps' = Append(steps, "emit")
    /\ UNCHANGED <<fs, cwd, argv, nodes, path_to_node, pending, outfile, exit_code, built>>

\* save_to_file and the end of main: the file is written and the process
\* ends with status 0, or open() or write() raises OSError, which main
\* catches and turns into status 1.
Save ==
    /\ pc = "emitted"
    /\ \E outcome \in {"written", "absent", "partial"} :
          /\ outfile' = outcome
          /\ exit_code' = IF outcome = "written" THEN 0 ELSE 1
    /\ pc' = "exit"
    /\ steps' = Append(steps, "write")
    /\ UNCHANGED <<fs, cwd, argv, nodes, path_to_node, pending, mermaid, built>>

Init ==
    /\ fs = {}
    /\ pc = "setup"
    /\ cwd = <<>>
    /\ argv = <<>>
    /\ nodes = <<>>
    /\ path_to_node = <<>>
    /\ pending = <<>>
    /\ mermaid = <<>>
    /\ outfile = "absent"
    /\ exit_code = -1
    /\ built = <<>>
    /\ steps = <<>>

Next == Mkdir \/ Touch \/ MainStart \/ WalkStep \/ Prune \/ Emit \/ Save

Spec == Init /\ [][Next]_vars

\* ------------------------------------------------------ the claims' terms

Range(q) == {q[i] : i \in 1..Len(q)}

\* The objects of the tree below and including n in heap h.
RECURSIVE Subtree(_, _)
Subtree(h, n) == {n} \cup UNION {Subtree(h, c) : c \in Range(h[n].children)}

IsComponent(h, n) == h[n].node_type \in {"page", "layout"}

\* The node that has n among its children.
ParentOf(h, n) == CHOOSE m \in 1..Len(h) : n \in Range(h[m].children)

\* The number of links from the root down to n, for n in the root's tree.
RECURSIVE Depth(_, _)
Depth(h, n) == IF n = root THEN 0 ELSE 1 + Depth(h, ParentOf(h, n))

\* The indices of the lines of one kind.
LinesOf(kind) == {i \in 1..Len(mermaid) : mermaid[i].kind = kind}

\* The place of n among its parent's children.
ChildIndex(h, n) ==
    LET m == ParentOf(h, n)
    IN  CHOOSE k \in 1..Len(h[m].children) : h[m].children[k] = n

\* The index of the declaration line appended while n was dequeued.
DeclPos(n) == CHOOSE i \in LinesOf("decl") : mermaid[i].src = n

\* The filesystem location a node's path denotes: the path is relative to
\* the parent of the root path.
EntryOf(h, n) == AbsParts(cwd, join(dirname(root_path), h[n].path))

ExactNames(stem) == {stem \o e : e \in Extensions}

\* The names of all files under the project directory.
AllFileNames == {e.loc[Len(e.loc)] : e \in {x \in fs : x.kind = "file"}}

\* The command line names a root path and nothing is at that path.
RootPathMissing == argv # <<>> /\ AbsParts(cwd, argv[1]) \notin DirLocs \cup FileLocs

\* ---------------------------------------------------------------- claims

\* C1: after prune_tree(root) the root is still there, and a node of the
\* built tree other than the root is in the pruned tree exactly when it is a
\* page or layout node or has a page or layout node below it.
C1_PruneKeepsComponentBranches ==
    pc = "pruned" =>
        /\ [nodes[root] EXCEPT !.children = <<>>] = [built[root] EXCEPT !.children = <<>>]
        /\ \A n \in Subtree(built, root) \ {root} :
              n \in Subtree(nodes, root)
                  <=> \E d \in Subtree(built, n) : IsComponent(built, d)

\* C1's case: pruning removed a node and kept a folder whose only page lies
\* below one of its subdirectories.
C1_Witness ==
    /\ pc = "pruned"
    /\ Subtree(nodes, root) # Subtree(built, root)
    /\ \E n \in Subtree(nodes, root) \ {root} :
          /\ ~IsComponent(built, n)
          /\ \A c \in Range(built[n].children) : ~IsComponent(built, c)

\* C2: two nodes of one built tree with different paths have different
\* identifiers.
C2_IdentifiersInjective ==
    pc = "crawled" =>
        \A m, n \in Subtree(nodes, root) :
            nodes[m].path # nodes[n].path
                => get_mermaid_id(nodes[m]) # get_mermaid_id(nodes[n])

\* C3: the text generate_mermaid returns for a pruned tree has one
\* declaration line per node, one edge line per parent-child link and one
\* style line per page, layout or dynamic node, and no style line for a
\* folder node.
C3_OneLinePerNodeLinkAndStyledNode ==
    pc = "emitted" =>
        LET T      == Subtree(nodes, root)
            styled == {n \in T : nodes[n].node_type \in {"page", "layout", "dynamic"}}
        IN  /\ Cardinality(LinesOf("decl")) = Cardinality(T)
            /\ \A n \in T : \E i \in LinesOf("decl") :
                  /\ mermaid[i].id = get_mermaid_id(nodes[n])
                  /\ mermaid[i].arg = get_mermaid_label(nodes[n])
            /\ Cardinality(LinesOf("edge")) = Cardinality(T) - 1
            /\ \A n \in T : \A c \in Range(nodes[n].children) : \E i \in LinesOf("edge") :
                  /\ mermaid[i].id = get_mermaid_id(nodes[n])
                  /\ mermaid[i].arg = get_mermaid_id(nodes[c])
            /\ Cardinality(LinesOf("style")) = Cardinality(styled)
            /\ \A n \in styled : \E i \in LinesOf("style") :
                  /\ mermaid[i].id = get_mermaid_id(nodes[n])
                  /\ mermaid[i].arg = get_mermaid_style(nodes[n])
            /\ \A i \in LinesOf("style") : \E n \in styled :
                  mermaid[i].id = get_mermaid_id(nodes[n])

\* C4: when crawl_nextjs_project returns, the dict holds one node per
\* directory and qualifying file of the project, every node in it is
\* reachable from the root, and no two nodes of the tree denote the same
\* filesystem entry.
C4_OneNodePerEntry ==
    pc = "crawled" =>
        /\ Cardinality(DOMAIN path_to_node)
              = 1 + Cardinality({e \in fs : e.kind = "dir"})
                  + Cardinality({e \in fs : /\ e.kind = "file"
                                            /\ \/ is_page_file(e.loc[Len(e.loc)])
                                               \/ is_layout_file(e.loc[Len(e.loc)])})
        /\ \A p \in DOMAIN path_to_node : path_to_node[p] \in Subtree(nodes, root)
        /\ \A m, n \in Subtree(nodes, root) :
              EntryOf(nodes, m) = EntryOf(nodes, n) => m = n

\* C5: the output file is written only after crawl, prune and emit have
\* completed, in that order; when the root path does not exist the run ends
\* with a non-zero status, the write step is not reached and there is no
\* output file.
C5_WriteOnlyAfterCrawlPruneEmit ==
    /\ (outfile # "absent" \/ "write" \in Range(steps))
          => steps = <<"crawl", "prune", "emit", "write">>
    /\ exit_code = 0 => outfile = "written"
    /\ RootPathMissing
          => /\ outfile = "absent"
             /\ steps = <<>>
             /\ pc = "exit"
             /\ exit_code = 1

\* C5's case: a run on a root path that does not exist has ended.
C5_Witness ==
    /\ pc = "exit"
    /\ RootPathMissing
    /\ exit_code = 1
    /\ fs # {}

\* C6: pruning the pruned tree again changes nothing: the same nodes, the
\* same links, the same order of children.
C6_PruneIdempotent ==
    pc = "pruned" => prune_tree(nodes, root) = nodes

\* C6's case: the first pruning removed something and left a node with two
\* or more children.
C6_Witness ==
    /\ pc = "pruned"
    /\ nodes # built
    /\ \E n \in Subtree(nodes, root) : Len(nodes[n].children) >= 2

\* C7: a file is a page (layout) file exactly when its whole name is page.
\* (layout.) followed by js, jsx, ts or tsx, and no name is both.
C7_ClassifiesFullBasename ==
    pc = "crawled" =>
        /\ \A f \in AllFileNames :
              /\ is_page_file(f) <=> f \in ExactNames(PAGE_PATTERNS[1])
              /\ is_layout_file(f) <=> f \in ExactNames(LAYOUT_PATTERNS[1])
              /\ ~(is_page_file(f) /\ is_layout_file(f))
        /\ \A n \in 1..Len(nodes) :
              /\ nodes[n].node_type = "page" => nodes[n].name \in ExactNames(PAGE_PATTERNS[1])
              /\ nodes[n].node_type = "layout" => nodes[n].name \in ExactNames(LAYOUT_PATTERNS[1])

\* C8: every directory the walk visits is already registered in the dict, so
\* the branch that creates a node is not taken, and during and right after
\* the walk every node but the root is a child of some node.
C8_DirectoryAlreadyRegistered ==
    /\ pc = "walk" => RelPath(Head(pending)) \in DOMAIN path_to_node
    /\ pc \in {"walk", "crawled"} =>
          \A n \in 2..Len(nodes) : \E m \in 1..Len(nodes) : n \in Range(nodes[m].children)

\* C9: the header line is first, then the declarations, then the edges, then
\* the styles; the declarations are in breadth-first order from the root
\* (by depth, a parent before its children, the nodes of one depth in the
\* order of their parents and of their places among the parent's children);
\* the edges and the styles follow the order in which their nodes were
\* dequeued.
C9_SectionsAndBreadthFirstOrder ==
    pc = "emitted" =>
        LET rank(i) == CASE mermaid[i].kind = "header" -> 0
                         [] mermaid[i].kind = "decl"   -> 1
                         [] mermaid[i].kind = "edge"   -> 2
                         [] mermaid[i].kind = "style"  -> 3
            src(i)  == mermaid[i].src
        IN  /\ LinesOf("header") = {1}
            /\ \A i, j \in 1..Len(mermaid) : i < j => rank(i) <= rank(j)
            /\ \A i, j \in LinesOf("decl") :
                  i < j =>
                     /\ src(i) # src(j)
                     /\ Depth(nodes, src(i)) <= Depth(nodes, src(j))
                     /\ src(i) \notin Range(nodes[src(j)].children)
                     /\ (Depth(nodes, src(i)) = Depth(nodes, src(j)) /\ src(i) # root) =>
                           LET pi == ParentOf(nodes, src(i))
                               pj == ParentOf(nodes, src(j))
                           IN  IF pi = pj
                               THEN ChildIndex(nodes, src(i)) < ChildIndex(nodes, src(j))
                               ELSE DeclPos(pi) < DeclPos(pj)
            /\ \A i, j \in LinesOf("edge") :
                  i < j => DeclPos(src(i)) <= DeclPos(src(j))
            /\ \A n \in {src(i) : i \in LinesOf("edge")} :
                  LET mine == {i \in LinesOf("edge") : src(i) = n}
                      lo   == CHOOSE i \in mine : \A j \in mine : i <= j
                  IN  /\ Cardinality(mine) = Len(nodes[n].children)
                      /\ \A k \in 1..Len(nodes[n].children) :
                            mermaid[lo + k - 1].arg = get_mermaid_id(nodes[nodes[n].children[k]])
            /\ \A i, j \in LinesOf("style") :
                  i < j => DeclPos(src(i)) < DeclPos(src(j))

\* C9's case: the tree has two directories under the root and a node two
\* levels down, so that depth order and depth-first order differ.
C9_Witness ==
    /\ pc = "emitted"
    /\ Cardinality({n \in Subtree(nodes, root) : Len(nodes[n].children) > 0}) >= 3
    /\ \E i \in LinesOf("decl") : Depth(nodes, mermaid[i].src) = 2
    /\ Cardinality(LinesOf("style")) >= 2

\* C10: every identifier at an end of an edge line or in a style line is
\* declared by exactly one declaration line: none is declared twice and no
\* edge names an undeclared identifier, also when two nodes share an
\* identifier.
C10_IdentifiersDeclaredOnce ==
    pc = "emitted" =>
        LET declared(id) == {i \in LinesOf("decl") : mermaid[i].id = id}
        IN  /\ \A i \in LinesOf("edge") :
                  /\ Cardinality(declared(mermaid[i].id)) = 1
                  /\ Cardinality(declared(mermaid[i].arg)) = 1
            /\ \A i \in LinesOf("style") : Cardinality(declared(mermaid[i].id)) = 1
            /\ \A i, j \in LinesOf("decl") : mermaid[i].id = mermaid[j].id => i = j

\* C10's case: two nodes of the tree passed to generate_mermaid share an
\* identifier, and one of them has a child.
C10_Witness ==
    /\ pc = "emitted"
    /\ \E m, n \in Subtree(nodes, root) :
          /\ m # n
          /\ get_mermaid_id(nodes[m]) = get_mermaid_id(nodes[n])
          /\ nodes[m].children # <<>>
          /\ nodes[n].children # <<>>

====
